---- MODULE Spec2Model ----
(***************************************************************************)
(* A model of the persistent key-value store of src/main.go: an in-memory  *)
(* map (data) with a side table of tombstone flags (DeletedKeys), a        *)
(* write-ahead log of JSON lines (wal.log) and SSTable files written when   *)
(* the map reaches ten entries and searched newest-first by modification   *)
(* time.                                                                   *)
(*                                                                         *)
(* Spec     : the engine called by one caller at a time (Set, Get, Delete, *)
(*            and a process crash followed by a restart).                  *)
(* SpecConc : the engine called by concurrently running HTTP handlers,     *)
(*            each handler advancing one access to the shared state at a   *)
(*            time: a map, a field of the store, wal.log or an SSTable     *)
(*            file.                                                        *)
(* SpecFaults : the engine called by one caller at a time, when a write to *)
(*            wal.log or to an SSTable file may fail and the process may   *)
(*            be killed within a Set and started again.                    *)
(***************************************************************************)
EXTENDS Integers, Sequences, FiniteSets, TLC

VARIABLES
    data,               \* kv.data: map[string][]byte
    DeletedKeys,        \* kv.DeletedKeys: map[string]bool
    smallestKeyLength,  \* kv.smallestKeyLength
    largestKeyLength,   \* kv.largestKeyLength
    wal,                \* the lines of wal.log, in file order
    sstFiles,           \* the sstable_*.sst files, in file name order
    reply,              \* the last call and what it returned to its caller
    hidden,             \* history: keys deleted and not Set since
    streak,             \* history: the run of Sets of distinct keys since the
                        \* memtable was last empty
    pc,                 \* SpecConc: each handler's position in its call
    req,                \* SpecConc: each handler's request
    loc,                \* SpecConc: each handler's local variables
    started,            \* SpecConc: the number of requests started
    walOpen,            \* SpecConc: the handle kv.wal holds is open
    logged,             \* Spec: the number of log records written for the free key
    faults,             \* SpecFaults: the number of I/O failures and crashes so far
    io                  \* SpecFaults: how the last call's writes of wal.log and of
                        \* an SSTable file went

vars == <<data, DeletedKeys, smallestKeyLength, largestKeyLength, wal,
          sstFiles, reply, hidden, streak, pc, req, loc, started, walOpen,
          logged, faults, io>>

engine == <<data, DeletedKeys, smallestKeyLength, largestKeyLength, wal, sstFiles>>
conc == <<pc, req, loc, started, walOpen>>
env == <<faults, io>>

-----------------------------------------------------------------------------
(* Bounds of the model.                                                    *)

\* At most this many calls on the free key append a record to wal.log.
MaxFree == 4
\* At most this many SSTable files are written.
MaxTables == 2
\* SpecConc: at most this many requests are started.
MaxRequests == 2
\* SpecConc: the files' modification times go up to this.
MaxClock == 2
\* SpecFaults: at most this many writes fail or are cut short by a crash.
MaxFaults == 1

(* The flush threshold of Set.                                             *)
Threshold == 10

-----------------------------------------------------------------------------
(* Keys and values.                                                        *)

\* The key the callers Set, Get and Delete freely.
FreeKey == "a"
\* Ten more keys, Set in this order, which fill the memtable up to a flush.
FillKeys == <<"b0", "b1", "b2", "b3", "b4", "b5", "b6", "b7", "b8", "b9">>
\* Every key, in the byte order of Go's string comparison.
SortedKeys == <<FreeKey>> \o FillKeys
Keys == {SortedKeys[i] : i \in 1..Len(SortedKeys)}

\* The values the callers Set. handleSet takes them from a JSON body, so they
\* are valid UTF-8; the second one holds a line break, which wal.log, a file
\* of lines, must not take for the end of a record.
PlainValue == "v1"
LineBreakValue == "v2\n"
Values == {PlainValue, LineBreakValue}
FillValue == PlainValue

\* A nil []byte; it prints, and is written to a file, as the empty string.
Nil == ""
\* What SearchSSTFile returns for an entry marked as deleted.
DeletedValue == "DELETED"

\* Go's map[string]T as a function on the keys present.
EmptyMap == [k \in {} |-> Nil]
MapPut(m, k, v) == [x \in (DOMAIN m) \cup {k} |-> IF x = k THEN v ELSE m[x]]
MapDelete(m, k) == [x \in (DOMAIN m) \ {k} |-> m[x]]
\* kv.DeletedKeys[key]: a missing key reads as false.
IsDeleted(del, key) == key \in DOMAIN del /\ del[key]

\* Go's a < b on strings, for the keys of the model.
KeyIndex(k) == CHOOSE i \in 1..Len(SortedKeys) : SortedKeys[i] = k
StrLess(a, b) == KeyIndex(a) < KeyIndex(b)

\* sort.Strings: insertion of each element into the sorted prefix.
RECURSIVE InsertString(_, _)
InsertString(sorted, k) ==
    IF sorted = <<>> THEN <<k>>
    ELSE IF StrLess(k, Head(sorted)) THEN <<k>> \o sorted
    ELSE <<Head(sorted)>> \o InsertString(Tail(sorted), k)

RECURSIVE SortStrings(_)
SortStrings(keys) ==
    IF keys = <<>> THEN <<>>
    ELSE InsertString(SortStrings(SubSeq(keys, 1, Len(keys) - 1)), keys[Len(keys)])

\* The keys of a map in one iteration order (Go leaves the order open; the
\* callers sort).
RECURSIVE RangeKeys(_)
RangeKeys(S) ==
    IF S = {} THEN <<>>
    ELSE LET k == CHOOSE x \in S : TRUE IN <<k>> \o RangeKeys(S \ {k})

-----------------------------------------------------------------------------
(* The write-ahead log.                                                    *)

\* json.Marshal of a string: a line break is written as the two characters
\* \n, so that an entry stays on one line of the file.
JSONEscape(s) == IF s = LineBreakValue THEN "v2\\n" ELSE s
\* The reading of a JSON string as it would be if the bytes between the
\* quotes were taken as they are.
JSONUnescapeRaw(s) == s

\* The decoder's reading of a JSON string: the escape becomes the character.
JSONUnescape(s) == IF s = "v2\\n" THEN LineBreakValue ELSE s

\* The line writeToWAL appends for a log entry.
WALLine(operation, key, value) ==
    [operation |-> operation, key |-> JSONEscape(key), value |-> JSONEscape(value)]

writeToWAL(log, operation, key, value) == Append(log, WALLine(operation, key, value))

\* What a write of a line leaves in the file when the process is killed, or
\* the disk fills up, in the middle of it: the line's bytes up to the first
\* byte of the value, with no closing quote, brace or line break.
CutShort == "v"
TornLine(operation, key) ==
    [operation |-> operation, key |-> JSONEscape(key), value |-> CutShort]
\* The JSON decoder cannot decode the line.
Malformed(line) == line.value = CutShort

\* ClearWAL: close, truncate to zero length, reopen.
ClearWAL == <<>>

\* RecoverFromWAL as it would be if the whole file were decoded before any
\* entry is applied: a line the decoder fails on leaves the map empty.
RECURSIVE ReplayAllOrNothing(_, _)
ReplayAllOrNothing(log, m) ==
    IF \E i \in 1..Len(log) : Malformed(log[i]) THEN EmptyMap
    ELSE IF log = <<>> THEN m
    ELSE LET e == Head(log) IN
         ReplayAllOrNothing(Tail(log),
                CASE e.operation = "set" ->
                         MapPut(m, JSONUnescape(e.key), JSONUnescape(e.value))
                  [] e.operation = "delete" -> MapDelete(m, JSONUnescape(e.key))
                  [] OTHER -> m)

\* RecoverFromWAL: the log's entries applied to the map in file order, up
\* to the end of the file or to the first line the decoder fails on.
RECURSIVE Replay(_, _)
Replay(log, m) ==
    IF log = <<>> \/ Malformed(Head(log)) THEN m
    ELSE LET e == Head(log) IN
         Replay(Tail(log),
                CASE e.operation = "set" ->
                         MapPut(m, JSONUnescape(e.key), JSONUnescape(e.value))
                  [] e.operation = "delete" -> MapDelete(m, JSONUnescape(e.key))
                  [] OTHER -> m)

-----------------------------------------------------------------------------
(* SSTable files.                                                          *)

\* The entries WriteSSTable writes: the keys of data, then the keys of
\* DeletedKeys, sorted; each with its marker and data's value for it.
SSTKeys(d, del) == SortStrings(RangeKeys(DOMAIN d) \o RangeKeys(DOMAIN del))

SSTEntry(d, del, key) ==
    LET value == IF key \in DOMAIN d THEN d[key] ELSE Nil IN
    [operationMarker |-> IF IsDeleted(del, key) THEN 1 ELSE 0,
     keyLength |-> Len(key),
     key |-> key,
     value |-> value]

WriteSSTable(d, del, smallest, largest, modTime) ==
    LET keys == SSTKeys(d, del) IN
    [magic |-> "SSTB",
     entryCount |-> Len(keys),
     smallestKeyLength |-> smallest,
     largestKeyLength |-> largest,
     entries |-> [i \in 1..Len(keys) |-> SSTEntry(d, del, keys[i])],
     modTime |-> modTime]

NotFound == [value |-> Nil, ok |-> FALSE]
Found(v) == [value |-> v, ok |-> TRUE]

\* The file as a failed or interrupted WriteSSTable leaves it: with no byte
\* written (cut = -1), or with the header and the first cut entries.
Truncate(file, cut) ==
    IF cut < 0
    THEN [magic |-> Nil, entryCount |-> 0, smallestKeyLength |-> 0,
          largestKeyLength |-> 0, entries |-> <<>>, modTime |-> file.modTime]
    ELSE [file EXCEPT !.entries = SubSeq(file.entries, 1, cut)]

\* SearchSSTFile: a linear scan of one file for the key; it ends at the
\* entry count of the header, or where the file ends and a read fails.
RECURSIVE ScanEntries(_, _, _)
ScanEntries(file, key, i) ==
    IF i > file.entryCount \/ i > Len(file.entries) THEN NotFound
    ELSE IF file.entries[i].key = key
         THEN IF file.entries[i].operationMarker = 1
              THEN Found(DeletedValue)
              ELSE Found(file.entries[i].value)
         ELSE ScanEntries(file, key, i + 1)

SearchSSTFile(key, file) ==
    IF file.magic # "SSTB" THEN NotFound ELSE ScanEntries(file, key, 1)

\* The less function of SearchSSTFiles' sort.Slice: later modification first.
ModTimeAfter(f, g) == f.modTime > g.modTime

\* sort.Slice on fewer than 12 elements is an insertion sort: an element
\* moves left past the elements it is less than.
RECURSIVE InsertFile(_, _)
InsertFile(sorted, f) ==
    IF sorted = <<>> THEN <<f>>
    ELSE LET last == sorted[Len(sorted)] IN
         IF ModTimeAfter(f, last)
         THEN InsertFile(SubSeq(sorted, 1, Len(sorted) - 1), f) \o <<last>>
         ELSE sorted \o <<f>>

RECURSIVE SortFiles(_)
SortFiles(files) ==
    IF files = <<>> THEN <<>>
    ELSE InsertFile(SortFiles(SubSeq(files, 1, Len(files) - 1)), files[Len(files)])

\* The search of the files in order, as it would be if a file with a wrong
\* magic number ended it.
RECURSIVE SearchInOrderAborting(_, _)
SearchInOrderAborting(key, files) ==
    IF files = <<>> THEN NotFound
    ELSE LET r == SearchSSTFile(key, Head(files)) IN
         IF r.ok \/ Head(files).magic # "SSTB" THEN r
         ELSE SearchInOrderAborting(key, Tail(files))

RECURSIVE SearchInOrder(_, _)
SearchInOrder(key, files) ==
    IF files = <<>> THEN NotFound
    ELSE LET r == SearchSSTFile(key, Head(files)) IN
         IF r.ok THEN r ELSE SearchInOrder(key, Tail(files))

\* SearchSSTFiles: the files Glob lists (in name order), sorted by
\* modification time, searched until one holds the key.
SearchSSTFiles(key, files) == SearchInOrder(key, SortFiles(files))

-----------------------------------------------------------------------------
(* The engine's calls as functions of the state.                           *)

\* Get on a store with map d, flags del and the given files.
GetIn(d, del, files, key) ==
    IF IsDeleted(del, key) THEN NotFound
    ELSE IF key \notin DOMAIN d THEN SearchSSTFiles(key, files)
    ELSE Found(d[key])

Get(key) == GetIn(data, DeletedKeys, sstFiles, key)

\* Set's update of the key length trackers.
NewSmallest(smallest, key) ==
    IF smallest = 0 \/ Len(key) < smallest THEN Len(key) ELSE smallest
NewLargest(largest, key) ==
    IF Len(key) > largest THEN Len(key) ELSE largest

\* Set's test for a flush, as it would be with > written for >=.
ReachedThresholdStrict(d) == Cardinality(DOMAIN d) > Threshold

\* Set's test for a flush.
ReachedThreshold(d) == Cardinality(DOMAIN d) >= Threshold

-----------------------------------------------------------------------------
(* What the callers ask for.                                               *)

\* The fill key a caller Sets next: the first one the memtable lacks.
NextFillKeys(d) ==
    {FillKeys[i] : i \in {j \in 1..Len(FillKeys) :
        /\ FillKeys[j] \notin DOMAIN d
        /\ \A h \in 1..(j - 1) : FillKeys[h] \in DOMAIN d}}

SetInputs(d) ==
    {<<FreeKey, v>> : v \in Values} \cup {<<k, FillValue>> : k \in NextFillKeys(d)}
DeleteInputs == {FreeKey}
GetInputs == {FreeKey}

\* The callers Set and Delete the free key when the memtable holds none of
\* the fill keys or all but the last of them.
FillCount(d) == Cardinality({i \in 1..Len(FillKeys) : FillKeys[i] \in DOMAIN d})
FreeAt == {0, Threshold - 1}
MayCall(key) == key # FreeKey \/ FillCount(data) \in FreeAt

\* A call on the free key that appends to wal.log is within the bound.
MayLog(key) == key # FreeKey \/ logged < MaxFree
Logged(key) == IF key = FreeKey THEN logged + 1 ELSE logged

\* The modification time the file system gives a file written now: its
\* clock has a tick, and two files written within one tick get the same time.
ModTimesNow(files) ==
    IF files = <<>> THEN {1}
    ELSE {files[Len(files)].modTime, files[Len(files)].modTime + 1}

Reply(op, key, value, result, ok, flushed) ==
    [op |-> op, key |-> key, value |-> value, result |-> result, ok |-> ok,
     flushed |-> flushed]

\* No call has written to wal.log or to an SSTable file.
NoIO == [wal |-> "none", table |-> "none"]

NoTombstones(del) == \A k \in Keys : ~IsDeleted(del, k)

\* The run of Sets a new Set continues: a fresh one when the memtable is
\* empty and holds no tombstone.
NoStreak == [n |-> -1, keys |-> {}, files |-> 0]
StreakBase ==
    IF data = EmptyMap /\ NoTombstones(DeletedKeys)
    THEN [n |-> 0, keys |-> {}, files |-> Len(sstFiles)]
    ELSE streak
StreakAfterSet(key) ==
    LET b == StreakBase IN
    IF b.n >= 0 /\ b.n < Threshold /\ key \notin b.keys
    THEN [n |-> b.n + 1, keys |-> b.keys \cup {key}, files |-> b.files]
    ELSE NoStreak

-----------------------------------------------------------------------------
(* The calls, one caller at a time.                                        *)

\* The store NewKeyValueStore makes in a directory without files.
NewStore ==
    /\ data = EmptyMap
    /\ DeletedKeys = EmptyMap
    /\ smallestKeyLength = 0
    /\ largestKeyLength = 0
    /\ wal = <<>>
    /\ sstFiles = <<>>
    /\ reply = Reply("open", Nil, Nil, Nil, TRUE, FALSE)
    /\ hidden = {}
    /\ streak = [n |-> 0, keys |-> {}, files |-> 0]

Init ==
    /\ NewStore
    /\ pc = [h \in {} |-> "idle"]
    /\ req = [h \in {} |-> Nil]
    /\ loc = [h \in {} |-> NotFound]
    /\ started = 0
    /\ walOpen = TRUE
    /\ logged = 0
    /\ faults = 0
    /\ io = NoIO

\* Set as it would be without the test of DeletedKeys[key] and the early
\* return: the value is logged and stored, the flag stays.
SetThroughTombstone(key, value, modTime) ==
    /\ MayCall(key)
    /\ LET smallest == NewSmallest(smallestKeyLength, key)
           largest == NewLargest(largestKeyLength, key)
           log == writeToWAL(wal, "set", key, value)
           d == MapPut(data, key, value)
       IN  /\ MayLog(key)
           /\ logged' = Logged(key)
           /\ smallestKeyLength' = smallest
           /\ largestKeyLength' = largest
           /\ IF ReachedThreshold(d)
              THEN /\ Len(sstFiles) < MaxTables
                   /\ sstFiles' = Append(sstFiles,
                          WriteSSTable(d, DeletedKeys, smallest, largest, modTime))
                   /\ data' = EmptyMap
                   /\ DeletedKeys' = EmptyMap
                   /\ wal' = ClearWAL
                   /\ reply' = Reply("set", key, value, "OK", TRUE, TRUE)
              ELSE /\ data' = d
                   /\ wal' = log
                   /\ UNCHANGED <<DeletedKeys, sstFiles>>
                   /\ reply' = Reply("set", key, value, "OK", TRUE, FALSE)
    /\ hidden' = hidden \ {key}
    /\ streak' = StreakAfterSet(key)
    /\ UNCHANGED <<conc, env>>

\* handleSet: kv.Set(key, value), then "OK".
Set(key, value, modTime) ==
    /\ MayCall(key)
    /\ IF IsDeleted(DeletedKeys, key)
       THEN /\ DeletedKeys' = MapPut(DeletedKeys, key, FALSE)
            /\ UNCHANGED <<data, smallestKeyLength, largestKeyLength, wal, sstFiles,
                           logged>>
            /\ reply' = Reply("set", key, value, "OK", TRUE, FALSE)
       ELSE LET smallest == NewSmallest(smallestKeyLength, key)
                largest == NewLargest(largestKeyLength, key)
                log == writeToWAL(wal, "set", key, value)
                d == MapPut(data, key, value)
            IN  /\ MayLog(key)
                /\ logged' = Logged(key)
                /\ smallestKeyLength' = smallest
                /\ largestKeyLength' = largest
                /\ IF ReachedThreshold(d)
                   THEN /\ Len(sstFiles) < MaxTables
                        /\ sstFiles' = Append(sstFiles,
                               WriteSSTable(d, DeletedKeys, smallest, largest, modTime))
                        /\ data' = EmptyMap
                        /\ DeletedKeys' = EmptyMap
                        /\ wal' = ClearWAL
                        /\ reply' = Reply("set", key, value, "OK", TRUE, TRUE)
                   ELSE /\ data' = d
                        /\ wal' = log
                        /\ UNCHANGED <<DeletedKeys, sstFiles>>
                        /\ reply' = Reply("set", key, value, "OK", TRUE, FALSE)
    /\ hidden' = hidden \ {key}
    /\ streak' = StreakAfterSet(key)
    /\ UNCHANGED <<conc, env>>

\* handleGet: kv.Get(key).
GetCall(key) ==
    /\ reply' = Reply("get", key, Nil, Get(key).value, Get(key).ok, FALSE)
    /\ UNCHANGED <<engine, hidden, streak, conc, logged, env>>

\* handleDelete: kv.Delete(key).
Delete(key) ==
    /\ MayCall(key)
    /\ IF key \in DOMAIN data
       THEN /\ MayLog(key)
            /\ logged' = Logged(key)
            /\ wal' = writeToWAL(wal, "delete", key, data[key])
            /\ data' = MapDelete(data, key)
            /\ UNCHANGED DeletedKeys
            /\ reply' = Reply("delete", key, Nil, data[key], TRUE, FALSE)
       ELSE LET r == Get(key) IN
            IF r.ok
            THEN /\ MayLog(key)
                 /\ logged' = Logged(key)
                 /\ wal' = writeToWAL(wal, "delete", key, r.value)
                 /\ DeletedKeys' = MapPut(DeletedKeys, key, TRUE)
                 /\ UNCHANGED data
                 /\ reply' = Reply("delete", key, Nil, r.value, TRUE, FALSE)
            ELSE /\ UNCHANGED <<data, DeletedKeys, wal, logged>>
                 /\ reply' = Reply("delete", key, Nil, r.value, FALSE, FALSE)
    /\ hidden' = hidden \cup {key}
    /\ streak' = NoStreak
    /\ UNCHANGED <<smallestKeyLength, largestKeyLength, sstFiles, conc, env>>

\* The restart as it would be if RecoverFromWAL called Set for each entry
\* of the log: with ten entries in the map a file is written and the map
\* and the log are cleared.
RestartWithFlush ==
    LET d == Replay(wal, EmptyMap) IN
    /\ IF ReachedThreshold(d)
       THEN /\ data' = EmptyMap
            /\ wal' = ClearWAL
            /\ sstFiles' = Append(sstFiles,
                   WriteSSTable(d, EmptyMap, 0, 0, Len(sstFiles) + 1))
       ELSE /\ data' = d
            /\ UNCHANGED <<wal, sstFiles>>
    /\ DeletedKeys' = EmptyMap
    /\ smallestKeyLength' = 0
    /\ largestKeyLength' = 0
    /\ reply' = Reply("recover", Nil, Nil, Nil, TRUE, FALSE)
    /\ streak' = NoStreak
    /\ UNCHANGED <<hidden, conc, logged, env>>

\* The process is killed between two calls and started again: main opens
\* a new store and replays wal.log into it.
Restart ==
    /\ data' = Replay(wal, EmptyMap)
    /\ DeletedKeys' = EmptyMap
    /\ smallestKeyLength' = 0
    /\ largestKeyLength' = 0
    /\ reply' = Reply("recover", Nil, Nil, Nil, TRUE, FALSE)
    /\ streak' = NoStreak
    /\ UNCHANGED <<wal, sstFiles, hidden, conc, logged, env>>

Next ==
    \/ \E in \in SetInputs(data), t \in ModTimesNow(sstFiles) : Set(in[1], in[2], t)
    \/ \E key \in GetInputs : GetCall(key)
    \/ \E key \in DeleteInputs : Delete(key)
    \/ Restart

Spec == Init /\ [][Next]_vars

-----------------------------------------------------------------------------
(* The calls when a write to wal.log or to an SSTable file may fail, and   *)
(* when the process may be killed in the middle of a Set. The histories    *)
(* hidden and streak belong to Spec and are not kept here.                 *)

\* How WriteSSTable ends: without an error, or with one, and then with no
\* file created (os.Create failed) or with the bytes written before the
\* failing write left in the file.
NoFile == -2
Cuts == {NoFile, -1, 0, 1}
TableOutcomes == {[ok |-> TRUE, cut |-> 0]} \cup {[ok |-> FALSE, cut |-> c] : c \in Cuts}

\* The directory after WriteSSTable has ended in that way.
FilesAfterWrite(files, file, table) ==
    IF table.ok THEN Append(files, file)
    ELSE IF table.cut = NoFile THEN files
    ELSE Append(files, Truncate(file, table.cut))

\* Set's handling of WriteSSTable's result, as it would be if the maps and
\* the log were cleared whether or not the file was written.
AfterWriteSSTableCleared(ok, d, del, log) ==
    [data |-> EmptyMap, DeletedKeys |-> EmptyMap, wal |-> ClearWAL]

\* Set's handling of WriteSSTable's result: on an error it returns and
\* leaves the maps and the log as they are; otherwise it clears them.
AfterWriteSSTable(ok, d, del, log) ==
    IF ok
    THEN [data |-> EmptyMap, DeletedKeys |-> EmptyMap, wal |-> ClearWAL]
    ELSE [data |-> d, DeletedKeys |-> del, wal |-> log]

Failures(walOK, tableOK) == (IF walOK THEN 0 ELSE 1) + (IF tableOK THEN 0 ELSE 1)
WALOutcome(walOK) == IF walOK THEN "ok" ELSE "failed"

\* handleSet: kv.Set(key, value), then "OK"; walOK says whether the write
\* of the log line succeeds (nothing is written when it does not), table
\* says how WriteSSTable ends when Set calls it.
SetIO(key, value, modTime, walOK, table) ==
    /\ MayCall(key)
    /\ IF IsDeleted(DeletedKeys, key)
       THEN /\ walOK /\ table.ok
            /\ DeletedKeys' = MapPut(DeletedKeys, key, FALSE)
            /\ UNCHANGED <<data, smallestKeyLength, largestKeyLength, wal, sstFiles,
                           logged, faults>>
            /\ io' = NoIO
            /\ reply' = Reply("set", key, value, "OK", TRUE, FALSE)
       ELSE LET smallest == NewSmallest(smallestKeyLength, key)
                largest == NewLargest(largestKeyLength, key)
                log == IF walOK THEN writeToWAL(wal, "set", key, value) ELSE wal
                d == MapPut(data, key, value)
                file == WriteSSTable(d, DeletedKeys, smallest, largest, modTime)
                after == AfterWriteSSTable(table.ok, d, DeletedKeys, log)
            IN  /\ MayLog(key)
                /\ logged' = Logged(key)
                /\ faults' = faults + Failures(walOK, table.ok)
                /\ faults' <= MaxFaults
                /\ smallestKeyLength' = smallest
                /\ largestKeyLength' = largest
                /\ IF ReachedThreshold(d)
                   THEN /\ Len(sstFiles) < MaxTables
                        /\ sstFiles' = FilesAfterWrite(sstFiles, file, table)
                        /\ data' = after.data
                        /\ DeletedKeys' = after.DeletedKeys
                        /\ wal' = after.wal
                        /\ io' = [wal |-> WALOutcome(walOK),
                                  table |-> IF table.ok THEN "ok" ELSE "failed"]
                        /\ reply' = Reply("set", key, value, "OK", TRUE, table.ok)
                   ELSE /\ table.ok
                        /\ data' = d
                        /\ wal' = log
                        /\ UNCHANGED <<DeletedKeys, sstFiles>>
                        /\ io' = [wal |-> WALOutcome(walOK), table |-> "none"]
                        /\ reply' = Reply("set", key, value, "OK", TRUE, FALSE)
    /\ UNCHANGED <<hidden, streak, conc>>

\* handleDelete: kv.Delete(key); walOK says whether the write of the log
\* line succeeds.
DeleteIO(key, walOK) ==
    /\ MayCall(key)
    /\ IF key \in DOMAIN data
       THEN /\ MayLog(key)
            /\ logged' = Logged(key)
            /\ wal' = IF walOK THEN writeToWAL(wal, "delete", key, data[key]) ELSE wal
            /\ data' = MapDelete(data, key)
            /\ UNCHANGED DeletedKeys
            /\ faults' = faults + Failures(walOK, TRUE)
            /\ io' = [wal |-> WALOutcome(walOK), table |-> "none"]
            /\ reply' = Reply("delete", key, Nil, data[key], TRUE, FALSE)
       ELSE LET r == Get(key) IN
            IF r.ok
            THEN /\ MayLog(key)
                 /\ logged' = Logged(key)
                 /\ wal' = IF walOK THEN writeToWAL(wal, "delete", key, r.value) ELSE wal
                 /\ DeletedKeys' = MapPut(DeletedKeys, key, TRUE)
                 /\ UNCHANGED data
                 /\ faults' = faults + Failures(walOK, TRUE)
                 /\ io' = [wal |-> WALOutcome(walOK), table |-> "none"]
                 /\ reply' = Reply("delete", key, Nil, r.value, TRUE, FALSE)
            ELSE /\ walOK
                 /\ UNCHANGED <<data, DeletedKeys, wal, logged, faults>>
                 /\ io' = NoIO
                 /\ reply' = Reply("delete", key, Nil, r.value, FALSE, FALSE)
    /\ faults' <= MaxFaults
    /\ UNCHANGED <<smallestKeyLength, largestKeyLength, sstFiles, hidden, streak,
                   conc>>

\* Where a Set is when the process is killed: within the write of the log
\* line, after writeToWAL, within WriteSSTable (with the header and cut
\* entries written), or after WriteSSTable and before the maps and the log
\* are cleared.
KillPoints ==
    {[at |-> "torn", cut |-> 0], [at |-> "logged", cut |-> 0],
     [at |-> "written", cut |-> 0]}
    \cup {[at |-> "partial", cut |-> c] : c \in Cuts \ {NoFile}}

\* The process is killed within Set(key, value): the files stay as the
\* call has left them up to that point, the memory is gone.
KillInSet(key, value, modTime, point) ==
    LET log == IF point.at = "torn" THEN Append(wal, TornLine("set", key))
               ELSE writeToWAL(wal, "set", key, value)
        d == MapPut(data, key, value)
        file == WriteSSTable(d, DeletedKeys, NewSmallest(smallestKeyLength, key),
                             NewLargest(largestKeyLength, key), modTime)
    IN  /\ MayCall(key)
        /\ ~IsDeleted(DeletedKeys, key)
        /\ MayLog(key)
        /\ logged' = Logged(key)
        /\ faults < MaxFaults
        /\ faults' = faults + 1
        /\ point.at \in {"partial", "written"} =>
               ReachedThreshold(d) /\ Len(sstFiles) < MaxTables
        /\ wal' = log
        /\ sstFiles' = CASE point.at = "partial" ->
                                Append(sstFiles, Truncate(file, point.cut))
                         [] point.at = "written" -> Append(sstFiles, file)
                         [] OTHER -> sstFiles
        /\ io' = [wal |-> IF point.at = "torn" THEN "torn" ELSE "ok",
                  table |-> CASE point.at = "partial" -> "torn"
                              [] point.at = "written" -> "ok"
                              [] OTHER -> "none"]
        /\ reply' = Reply("killed", key, value, Nil, FALSE, FALSE)
        /\ UNCHANGED <<data, DeletedKeys, smallestKeyLength, largestKeyLength,
                       hidden, streak, conc>>

Killed == reply.op = "killed"

\* A killed process takes no call; it is started again.
NextFaults ==
    \/ /\ ~Killed
       /\ \E in \in SetInputs(data), t \in ModTimesNow(sstFiles),
             walOK \in BOOLEAN, table \in TableOutcomes :
              SetIO(in[1], in[2], t, walOK, table)
    \/ /\ ~Killed
       /\ \E key \in DeleteInputs, walOK \in BOOLEAN : DeleteIO(key, walOK)
    \/ /\ ~Killed
       /\ \E key \in GetInputs : GetCall(key)
    \/ /\ ~Killed
       /\ \E in \in SetInputs(data), t \in ModTimesNow(sstFiles),
             point \in KillPoints : KillInSet(in[1], in[2], t, point)
    \/ /\ Killed
       /\ Restart

SpecFaults == Init /\ [][NextFaults]_vars

-----------------------------------------------------------------------------
(* The calls made by concurrently running handlers. net/http serves each   *)
(* request on a goroutine of its own and the store holds no lock, so a     *)
(* handler's accesses to the store interleave with the other handlers'.    *)

Handlers == {1, 2}

\* A handler with no call, and the locals of a call that has not set them:
\* value and ok; WriteSSTable's keys, its place i among them and the name
\* of its file; a number read (a key length tracker, a modification
\* time); the state of a range over a map (must, opt, live);
\* SearchSSTFiles' list of files and the places i and j of its sort.
NoRequest == [op |-> "none", key |-> Nil, value |-> Nil]
NoLocals == [value |-> Nil, ok |-> FALSE, keys |-> <<>>, i |-> 0, j |-> 0,
             n |-> 0, must |-> {}, opt |-> {}, live |-> FALSE,
             files |-> <<>>, file |-> 0]

\* The store after nine Sets, of all but the last fill key.
FilledKeys == {FillKeys[i] : i \in 1..(Threshold - 1)}
FilledLog == [i \in 1..(Threshold - 1) |-> WALLine("set", FillKeys[i], FillValue)]

\* The store in that state; Spec reaches it by nine Sets.
NineKeysSet ==
    /\ data = [k \in FilledKeys |-> FillValue]
    /\ DeletedKeys = EmptyMap
    /\ smallestKeyLength = Len(FillKeys[1])
    /\ largestKeyLength = Len(FillKeys[1])
    /\ wal = FilledLog
    /\ sstFiles = <<>>
    /\ reply = Reply("set", FillKeys[Threshold - 1], FillValue, "OK", TRUE, FALSE)
    /\ hidden = {}
    /\ streak = [n |-> Threshold - 1, keys |-> FilledKeys, files |-> 0]

\* The store after Set of the free key and nine Sets, which flush, nine Sets
\* again and Delete of the free key, which the file holds: its tombstone is
\* in memory. Spec reaches it by these calls.
TombstoneKept ==
    /\ data = [k \in FilledKeys |-> FillValue]
    /\ DeletedKeys = MapPut(EmptyMap, FreeKey, TRUE)
    /\ smallestKeyLength = Len(FreeKey)
    /\ largestKeyLength = Len(FillKeys[1])
    /\ wal = writeToWAL(FilledLog, "delete", FreeKey, PlainValue)
    /\ sstFiles = << [name |-> 1] @@
           WriteSSTable(MapPut([k \in FilledKeys |-> FillValue], FreeKey, PlainValue),
                        EmptyMap, Len(FreeKey), Len(FillKeys[1]), 1) >>
    /\ reply = Reply("delete", FreeKey, Nil, PlainValue, TRUE, FALSE)
    /\ hidden = {FreeKey}
    /\ streak = NoStreak

\* The handlers start on a new store, on one nine Sets have filled, or on
\* one that keeps a tombstone.
InitConc ==
    /\ NewStore \/ NineKeysSet \/ TombstoneKept
    /\ logged = 0
    /\ faults = 0
    /\ io = NoIO
    /\ pc = [h \in Handlers |-> "idle"]
    /\ req = [h \in Handlers |-> NoRequest]
    /\ loc = [h \in Handlers |-> NoLocals]
    /\ started = 0
    /\ walOpen = TRUE

\* The requests the handlers get: Sets of the free key and of the next fill
\* key, with one value, and Gets and Deletes of the free key.
Requests ==
    {[op |-> "set", key |-> in[1], value |-> in[2]] :
        in \in {x \in SetInputs(data) : x[2] \in {PlainValue, FillValue}}}
    \cup {[op |-> "get", key |-> k, value |-> Nil] : k \in GetInputs}
    \cup {[op |-> "delete", key |-> k, value |-> Nil] : k \in DeleteInputs}

\* What no step of SpecConc changes but Start.
rest == <<started, hidden, streak, logged, env>>

Goto(h, label) == pc' = [pc EXCEPT ![h] = label]
\* The call returns to its handler, which answers; the call's locals go.
\* l holds the handlers' locals as the returning step leaves them.
ReturnWith(l, h, result, ok, flushed) ==
    /\ pc' = [pc EXCEPT ![h] = "idle"]
    /\ reply' = Reply(req[h].op, req[h].key, req[h].value, result, ok, flushed)
    /\ req' = [req EXCEPT ![h] = NoRequest]
    /\ loc' = [l EXCEPT ![h] = NoLocals]
Return(h, result, ok, flushed) == ReturnWith(loc, h, result, ok, flushed)
Lookup(d, key) == IF key \in DOMAIN d THEN Found(d[key]) ELSE NotFound

\* A range over a map goes on while other handlers write the map. Go
\* produces every entry that is there from the start of the range to its
\* end; an entry removed or added meanwhile it may produce or not (removed
\* after or before the range reached it; added where the range still comes
\* or where it has been). must holds the keys of the former kind, opt those
\* of the latter; the range, whose order Go leaves open, produces must and
\* any of opt. The range holds the map it started on: once the field is
\* assigned another map (live is FALSE), writes no longer reach it.
RangeStart(l, m) == [l EXCEPT !.must = DOMAIN m, !.opt = {}, !.live = TRUE]
\* The handlers' locals after key is added to or removed from the map that
\* the handlers at the position ranging range over.
Touched(ranging, key) ==
    [g \in Handlers |->
        IF pc[g] = ranging /\ loc[g].live
        THEN [loc[g] EXCEPT !.must = @ \ {key}, !.opt = @ \cup {key}]
        ELSE loc[g]]
\* The same after the field is assigned a new map.
Detached(ranging) ==
    [g \in Handlers |->
        IF pc[g] = ranging THEN [loc[g] EXCEPT !.live = FALSE] ELSE loc[g]]
\* A write of m[key] adds an entry when the map has none for the key.
AfterPut(ranging, m, key) ==
    IF key \in DOMAIN m THEN loc ELSE Touched(ranging, key)

\* The server hands a request to a handler, which calls the store.
Start(h, r) ==
    /\ pc[h] = "idle"
    /\ started < MaxRequests
    /\ started' = started + 1
    /\ req' = [req EXCEPT ![h] = r]
    /\ Goto(h, r.op)
    /\ UNCHANGED <<engine, walOpen, reply, hidden, streak, loc, logged, env>>

\* Set: the test of kv.DeletedKeys[key].
SetCheckDeleted(h) ==
    /\ pc[h] = "set"
    /\ Goto(h, IF IsDeleted(DeletedKeys, req[h].key)
               THEN "set_undelete" ELSE "set_smallest")
    /\ UNCHANGED <<engine, walOpen, reply, req, loc, rest>>

\* Set: kv.DeletedKeys[key] = false, in the map the field holds by now,
\* and the early return.
SetUndelete(h) ==
    /\ pc[h] = "set_undelete"
    /\ DeletedKeys' = MapPut(DeletedKeys, req[h].key, FALSE)
    /\ ReturnWith(AfterPut("flush_range_deleted_end", DeletedKeys, req[h].key),
                  h, "OK", TRUE, FALSE)
    /\ UNCHANGED <<data, smallestKeyLength, largestKeyLength, wal, sstFiles,
                   walOpen, rest>>

\* Set: the test of kv.smallestKeyLength.
SetTestSmallest(h) ==
    /\ pc[h] = "set_smallest"
    /\ Goto(h, IF smallestKeyLength = 0 \/ Len(req[h].key) < smallestKeyLength
               THEN "set_smallest_assign" ELSE "set_largest")
    /\ UNCHANGED <<engine, walOpen, reply, req, loc, rest>>

\* Set: kv.smallestKeyLength = keyLength.
SetAssignSmallest(h) ==
    /\ pc[h] = "set_smallest_assign"
    /\ smallestKeyLength' = Len(req[h].key)
    /\ Goto(h, "set_largest")
    /\ UNCHANGED <<data, DeletedKeys, largestKeyLength, wal, sstFiles, walOpen,
                   reply, req, loc, rest>>

\* Set: the test of kv.largestKeyLength.
SetTestLargest(h) ==
    /\ pc[h] = "set_largest"
    /\ Goto(h, IF Len(req[h].key) > largestKeyLength
               THEN "set_largest_assign" ELSE "set_wal")
    /\ UNCHANGED <<engine, walOpen, reply, req, loc, rest>>

\* Set: kv.largestKeyLength = keyLength.
SetAssignLargest(h) ==
    /\ pc[h] = "set_largest_assign"
    /\ largestKeyLength' = Len(req[h].key)
    /\ Goto(h, "set_wal")
    /\ UNCHANGED <<data, DeletedKeys, smallestKeyLength, wal, sstFiles, walOpen,
                   reply, req, loc, rest>>

\* writeToWAL on the handle kv.wal holds: the write fails, and is only
\* reported, while ClearWAL has closed the handle and not yet replaced it.
WriteOnHandle(log, open, operation, key, value) ==
    IF open THEN writeToWAL(log, operation, key, value) ELSE log

\* Set: writeToWAL.
SetWriteWAL(h) ==
    /\ pc[h] = "set_wal"
    /\ wal' = WriteOnHandle(wal, walOpen, "set", req[h].key, req[h].value)
    /\ Goto(h, "set_store")
    /\ UNCHANGED <<data, DeletedKeys, smallestKeyLength, largestKeyLength,
                   sstFiles, walOpen, reply, req, loc, rest>>

\* Set: kv.data[key] = value.
SetStore(h) ==
    /\ pc[h] = "set_store"
    /\ data' = MapPut(data, req[h].key, req[h].value)
    /\ loc' = AfterPut("flush_range_data_end", data, req[h].key)
    /\ Goto(h, "set_threshold")
    /\ UNCHANGED <<DeletedKeys, smallestKeyLength, largestKeyLength, wal,
                   sstFiles, walOpen, reply, req, rest>>

\* Set: the test of len(kv.data).
SetCheckThreshold(h) ==
    /\ pc[h] = "set_threshold"
    /\ IF ReachedThreshold(data)
       THEN Goto(h, "flush_name") /\ UNCHANGED <<reply, req, loc>>
       ELSE Return(h, "OK", TRUE, FALSE)
    /\ UNCHANGED <<engine, walOpen, rest>>

\* The file system's clock as the files show it, and the time it gives a
\* write made now.
Clock(files) ==
    IF files = <<>> THEN 0
    ELSE CHOOSE t \in {files[i].modTime : i \in 1..Len(files)} :
             \A i \in 1..Len(files) : files[i].modTime <= t
WriteTimes(files) ==
    {t \in {Clock(files), Clock(files) + 1} : t >= 1 /\ t <= MaxClock}

\* The names given so far, to files and to handlers that have yet to create
\* theirs; a name holds the time of its making, so the next one is later.
NamesTaken == {sstFiles[i].name : i \in 1..Len(sstFiles)}
                  \cup {loc[g].file : g \in Handlers}
NextName == 1 + CHOOSE n \in NamesTaken \cup {0} :
                    \A m \in NamesTaken \cup {0} : m <= n

\* Set: the file name is made of time.Now().
FlushName(h) ==
    /\ pc[h] = "flush_name"
    /\ NextName <= MaxTables
    /\ loc' = [loc EXCEPT ![h].file = NextName]
    /\ Goto(h, "flush_create")
    /\ UNCHANGED <<engine, walOpen, reply, req, rest>>

\* The file os.Create makes: it is in the directory, and empty.
NewFile(name, modTime) ==
    [name |-> name, magic |-> Nil, entryCount |-> 0, smallestKeyLength |-> 0,
     largestKeyLength |-> 0, entries |-> <<>>, modTime |-> modTime]

\* The directory, in name order, with one more file.
RECURSIVE InsertByName(_, _)
InsertByName(files, f) ==
    IF files = <<>> THEN <<f>>
    ELSE IF f.name < Head(files).name THEN <<f>> \o files
    ELSE <<Head(files)>> \o InsertByName(Tail(files), f)

\* The place of the file of the given name in the directory.
FileIndex(files, name) == CHOOSE i \in 1..Len(files) : files[i].name = name
\* The file h writes, after a write at modTime that leaves it as file w.
Written(h, w, modTime) ==
    [sstFiles EXCEPT ![FileIndex(sstFiles, loc[h].file)] =
        [w EXCEPT !.modTime = modTime]]
FileOf(h) == sstFiles[FileIndex(sstFiles, loc[h].file)]

\* WriteSSTable: os.Create.
FlushCreate(h, modTime) ==
    /\ pc[h] = "flush_create"
    /\ sstFiles' = InsertByName(sstFiles, NewFile(loc[h].file, modTime))
    /\ Goto(h, "flush_magic")
    /\ UNCHANGED <<data, DeletedKeys, smallestKeyLength, largestKeyLength, wal,
                   walOpen, reply, req, loc, rest>>

\* WriteSSTable: the magic number is written.
FlushMagic(h, modTime) ==
    /\ pc[h] = "flush_magic"
    /\ sstFiles' = Written(h, [FileOf(h) EXCEPT !.magic = "SSTB"], modTime)
    /\ Goto(h, "flush_range_data")
    /\ UNCHANGED <<data, DeletedKeys, smallestKeyLength, largestKeyLength, wal,
                   walOpen, reply, req, loc, rest>>

\* WriteSSTable: the range over kv.data starts.
FlushRangeData(h) ==
    /\ pc[h] = "flush_range_data"
    /\ loc' = [loc EXCEPT ![h] = RangeStart(@, data)]
    /\ Goto(h, "flush_range_data_end")
    /\ UNCHANGED <<engine, walOpen, reply, req, rest>>

\* WriteSSTable: the range over kv.data ends, having produced the keys it
\* had to and those of also.
FlushRangeDataEnd(h, also) ==
    /\ pc[h] = "flush_range_data_end"
    /\ also \subseteq loc[h].opt
    /\ loc' = [loc EXCEPT ![h].keys = RangeKeys(loc[h].must \cup also),
                          ![h].must = {}, ![h].opt = {}, ![h].live = FALSE]
    /\ Goto(h, "flush_range_deleted")
    /\ UNCHANGED <<engine, walOpen, reply, req, rest>>

\* WriteSSTable: the range over kv.DeletedKeys starts.
FlushRangeDeleted(h) ==
    /\ pc[h] = "flush_range_deleted"
    /\ loc' = [loc EXCEPT ![h] = RangeStart(@, DeletedKeys)]
    /\ Goto(h, "flush_range_deleted_end")
    /\ UNCHANGED <<engine, walOpen, reply, req, rest>>

\* WriteSSTable: the range over kv.DeletedKeys ends, and the keys are sorted.
FlushRangeDeletedEnd(h, also) ==
    /\ pc[h] = "flush_range_deleted_end"
    /\ also \subseteq loc[h].opt
    /\ loc' = [loc EXCEPT ![h].keys =
                              SortStrings(@ \o RangeKeys(loc[h].must \cup also)),
                          ![h].must = {}, ![h].opt = {}, ![h].live = FALSE]
    /\ Goto(h, "flush_count")
    /\ UNCHANGED <<engine, walOpen, reply, req, rest>>

\* WriteSSTable: the entry count is written.
FlushCount(h, modTime) ==
    /\ pc[h] = "flush_count"
    /\ sstFiles' = Written(h, [FileOf(h) EXCEPT !.entryCount = Len(loc[h].keys)],
                           modTime)
    /\ Goto(h, "flush_read_smallest")
    /\ UNCHANGED <<data, DeletedKeys, smallestKeyLength, largestKeyLength, wal,
                   walOpen, reply, req, loc, rest>>

\* WriteSSTable: kv.smallestKeyLength is read.
FlushReadSmallest(h) ==
    /\ pc[h] = "flush_read_smallest"
    /\ loc' = [loc EXCEPT ![h].n = smallestKeyLength]
    /\ Goto(h, "flush_smallest")
    /\ UNCHANGED <<engine, walOpen, reply, req, rest>>

\* WriteSSTable: the smallest key length is written.
FlushSmallest(h, modTime) ==
    /\ pc[h] = "flush_smallest"
    /\ sstFiles' = Written(h, [FileOf(h) EXCEPT !.smallestKeyLength = loc[h].n],
                           modTime)
    /\ Goto(h, "flush_read_largest")
    /\ UNCHANGED <<data, DeletedKeys, smallestKeyLength, largestKeyLength, wal,
                   walOpen, reply, req, loc, rest>>

\* WriteSSTable: kv.largestKeyLength is read.
FlushReadLargest(h) ==
    /\ pc[h] = "flush_read_largest"
    /\ loc' = [loc EXCEPT ![h].n = largestKeyLength]
    /\ Goto(h, "flush_largest")
    /\ UNCHANGED <<engine, walOpen, reply, req, rest>>

\* WriteSSTable: the largest key length is written; the loop over the keys
\* starts, or with no key WriteSSTable returns.
FlushLargest(h, modTime) ==
    /\ pc[h] = "flush_largest"
    /\ sstFiles' = Written(h, [FileOf(h) EXCEPT !.largestKeyLength = loc[h].n],
                           modTime)
    /\ loc' = [loc EXCEPT ![h].i = 1, ![h].n = 0]
    /\ Goto(h, IF loc[h].keys = <<>> THEN "set_clear" ELSE "flush_value")
    /\ UNCHANGED <<data, DeletedKeys, smallestKeyLength, largestKeyLength, wal,
                   walOpen, reply, req, rest>>

\* WriteSSTable, for one key: value := kv.data[key], nil when the map the
\* field holds by now lacks the key.
FlushValue(h) ==
    /\ pc[h] = "flush_value"
    /\ loc' = [loc EXCEPT ![h].value = Lookup(data, loc[h].keys[loc[h].i]).value]
    /\ Goto(h, "flush_marker")
    /\ UNCHANGED <<engine, walOpen, reply, req, rest>>

\* WriteSSTable, for one key: the test of kv.DeletedKeys[key].
FlushMarker(h) ==
    /\ pc[h] = "flush_marker"
    /\ loc' = [loc EXCEPT ![h].ok = IsDeleted(DeletedKeys, loc[h].keys[loc[h].i])]
    /\ Goto(h, "flush_write_marker")
    /\ UNCHANGED <<engine, walOpen, reply, req, rest>>

\* WriteSSTable, for one key: a write of a part of the entry that leaves it
\* short of what SearchSSTFile can read: the marker, the key length, the
\* value length.
FlushWritePart(h, modTime) ==
    /\ pc[h] \in {"flush_write_marker", "flush_write_keylength",
                  "flush_write_valuelength"}
    /\ sstFiles' = Written(h, FileOf(h), modTime)
    /\ Goto(h, CASE pc[h] = "flush_write_marker" -> "flush_write_keylength"
                 [] pc[h] = "flush_write_keylength" -> "flush_write_valuelength"
                 [] OTHER -> "flush_write_key")
    /\ UNCHANGED <<data, DeletedKeys, smallestKeyLength, largestKeyLength, wal,
                   walOpen, reply, req, loc, rest>>

\* The entry WriteSSTable writes for the key it is at.
EntryOf(h) ==
    [operationMarker |-> IF loc[h].ok THEN 1 ELSE 0,
     keyLength |-> Len(loc[h].keys[loc[h].i]),
     key |-> loc[h].keys[loc[h].i],
     value |-> loc[h].value]

\* WriteSSTable, for one key: the key is written. SearchSSTFile reads a
\* value of no byte without a read of the file, so that with such a value
\* the entry is there for it now.
FlushWriteKey(h, modTime) ==
    /\ pc[h] = "flush_write_key"
    /\ sstFiles' = Written(h,
           IF loc[h].value = Nil
           THEN [FileOf(h) EXCEPT !.entries = Append(@, EntryOf(h))]
           ELSE FileOf(h),
           modTime)
    /\ Goto(h, "flush_write_value")
    /\ UNCHANGED <<data, DeletedKeys, smallestKeyLength, largestKeyLength, wal,
                   walOpen, reply, req, loc, rest>>

\* WriteSSTable, for one key: the value is written (a write of no byte
\* changes nothing); after the last key WriteSSTable returns.
FlushWriteValue(h, modTime) ==
    /\ pc[h] = "flush_write_value"
    /\ sstFiles' =
           IF loc[h].value = Nil THEN sstFiles
           ELSE Written(h, [FileOf(h) EXCEPT !.entries = Append(@, EntryOf(h))],
                        modTime)
    /\ loc' = [loc EXCEPT ![h].i = @ + 1, ![h].value = Nil, ![h].ok = FALSE]
    /\ Goto(h, IF loc[h].i = Len(loc[h].keys) THEN "set_clear" ELSE "flush_value")
    /\ UNCHANGED <<data, DeletedKeys, smallestKeyLength, largestKeyLength, wal,
                   walOpen, reply, req, rest>>

\* Set: kv.data = make(...).
SetClear(h) ==
    /\ pc[h] = "set_clear"
    /\ data' = EmptyMap
    /\ loc' = Detached("flush_range_data_end")
    /\ Goto(h, "set_clear_deleted")
    /\ UNCHANGED <<DeletedKeys, smallestKeyLength, largestKeyLength, wal,
                   sstFiles, walOpen, reply, req, rest>>

\* Set: kv.DeletedKeys = make(...).
SetClearDeleted(h) ==
    /\ pc[h] = "set_clear_deleted"
    /\ DeletedKeys' = EmptyMap
    /\ loc' = Detached("flush_range_deleted_end")
    /\ Goto(h, "set_clearwal")
    /\ UNCHANGED <<data, smallestKeyLength, largestKeyLength, wal, sstFiles,
                   walOpen, reply, req, rest>>

\* Set, ClearWAL: kv.wal.Close(). On a handle already closed it fails, and
\* ClearWAL returns the error, which Set reports.
SetClearWAL(h) ==
    /\ pc[h] = "set_clearwal"
    /\ IF walOpen
       THEN /\ walOpen' = FALSE
            /\ Goto(h, "clearwal_truncate")
            /\ UNCHANGED <<reply, req, loc>>
       ELSE /\ Return(h, "OK", TRUE, TRUE)
            /\ UNCHANGED walOpen
    /\ UNCHANGED <<engine, rest>>

\* ClearWAL: os.Truncate("wal.log", 0).
ClearWALTruncate(h) ==
    /\ pc[h] = "clearwal_truncate"
    /\ wal' = ClearWAL
    /\ Goto(h, "clearwal_reopen")
    /\ UNCHANGED <<data, DeletedKeys, smallestKeyLength, largestKeyLength,
                   sstFiles, walOpen, reply, req, loc, rest>>

\* ClearWAL: the file is opened again and kv.wal = wal; Set returns.
ClearWALReopen(h) ==
    /\ pc[h] = "clearwal_reopen"
    /\ walOpen' = TRUE
    /\ Return(h, "OK", TRUE, TRUE)
    /\ UNCHANGED <<engine, rest>>

\* Get: the read of kv.data[key]. Delete calls Get for a key the map lacks.
GetRead(h) ==
    /\ pc[h] \in {"get", "get_inner"}
    /\ loc' = [loc EXCEPT ![h].value = Lookup(data, req[h].key).value,
                          ![h].ok = Lookup(data, req[h].key).ok]
    /\ Goto(h, "get_deleted")
    /\ UNCHANGED <<engine, walOpen, reply, req, rest>>

\* Get returns r: to the handler, or to Delete, which goes on when the key
\* was found.
GetReturn(h, r) ==
    IF req[h].op = "delete" /\ r.ok
    THEN /\ loc' = [loc EXCEPT ![h] = [NoLocals EXCEPT !.value = r.value,
                                                       !.ok = TRUE]]
         /\ Goto(h, "delete_tombwal")
         /\ UNCHANGED <<reply, req>>
    ELSE Return(h, r.value, r.ok, FALSE)

\* Get: the test of kv.DeletedKeys[key].
GetCheckDeleted(h) ==
    /\ pc[h] = "get_deleted"
    /\ IF IsDeleted(DeletedKeys, req[h].key) THEN GetReturn(h, NotFound)
       ELSE IF ~loc[h].ok
            THEN Goto(h, "search_glob") /\ UNCHANGED <<reply, req, loc>>
            ELSE GetReturn(h, Found(loc[h].value))
    /\ UNCHANGED <<engine, walOpen, rest>>

\* SearchSSTFiles: filepath.Glob lists the files there are, in name order.
\* sort.Slice, an insertion sort on so few files, compares the second file
\* with the first; on no file or one it compares nothing.
SearchGlob(h) ==
    /\ pc[h] = "search_glob"
    /\ IF sstFiles = <<>>
       THEN GetReturn(h, NotFound)
       ELSE /\ loc' = [loc EXCEPT
                   ![h].files = [i \in 1..Len(sstFiles) |-> sstFiles[i].name],
                   ![h].i = 2, ![h].j = 2]
            /\ Goto(h, IF Len(sstFiles) = 1 THEN "search_file" ELSE "sort_stat")
            /\ UNCHANGED <<reply, req>>
    /\ UNCHANGED <<engine, walOpen, rest>>

\* fileInfoModTime: os.Stat of the file of the given name, now.
ModTimeNow(name) == sstFiles[FileIndex(sstFiles, name)].modTime

\* The sort's less(j, j-1): fileInfoModTime of the file at j.
SortStat(h) ==
    /\ pc[h] = "sort_stat"
    /\ loc' = [loc EXCEPT ![h].n = ModTimeNow(loc[h].files[loc[h].j])]
    /\ Goto(h, "sort_compare")
    /\ UNCHANGED <<engine, walOpen, reply, req, rest>>

\* The list with the files at j and j - 1 exchanged.
Swap(files, j) ==
    [i \in 1..Len(files) |->
        IF i = j THEN files[j - 1] ELSE IF i = j - 1 THEN files[j] ELSE files[i]]

\* The sort's less(j, j-1): fileInfoModTime of the file at j - 1, and After.
\* The file at j moves left when less holds, and is compared again unless
\* it is the first; otherwise the sort goes on to the next file.
SortCompare(h) ==
    /\ pc[h] = "sort_compare"
    /\ LET l == loc[h]
           less == l.n > ModTimeNow(l.files[l.j - 1])
           files == IF less THEN Swap(l.files, l.j) ELSE l.files
           again == less /\ l.j - 1 > 1
           i == IF again THEN l.i ELSE l.i + 1
           j == IF again THEN l.j - 1 ELSE l.i + 1
       IN /\ loc' = [loc EXCEPT ![h].files = files, ![h].i = i, ![h].j = j,
                                ![h].n = 0]
          /\ Goto(h, IF i > Len(files) THEN "search_file" ELSE "sort_stat")
    /\ UNCHANGED <<engine, walOpen, reply, req, rest>>

\* SearchSSTFiles: SearchSSTFile reads the next file of the list, as far as
\* it is written by now.
SearchFile(h) ==
    /\ pc[h] = "search_file"
    /\ LET r == SearchSSTFile(req[h].key,
                    sstFiles[FileIndex(sstFiles, Head(loc[h].files))]) IN
       IF r.ok THEN GetReturn(h, r)
       ELSE IF Len(loc[h].files) = 1 THEN GetReturn(h, NotFound)
       ELSE /\ loc' = [loc EXCEPT ![h].files = Tail(@)]
            /\ UNCHANGED <<pc, reply, req>>
    /\ UNCHANGED <<engine, walOpen, rest>>

\* Delete: the read of kv.data[key].
DeleteRead(h) ==
    /\ pc[h] = "delete"
    /\ loc' = [loc EXCEPT ![h].value = Lookup(data, req[h].key).value,
                          ![h].ok = Lookup(data, req[h].key).ok]
    /\ Goto(h, IF req[h].key \in DOMAIN data THEN "delete_wal" ELSE "get_inner")
    /\ UNCHANGED <<engine, walOpen, reply, req, rest>>

\* Delete, key in the map: writeToWAL.
DeleteWriteWAL(h) ==
    /\ pc[h] = "delete_wal"
    /\ wal' = WriteOnHandle(wal, walOpen, "delete", req[h].key, loc[h].value)
    /\ Goto(h, "delete_remove")
    /\ UNCHANGED <<data, DeletedKeys, smallestKeyLength, largestKeyLength,
                   sstFiles, walOpen, reply, req, loc, rest>>

\* Delete, key in the map: delete(kv.data, key).
DeleteRemove(h) ==
    /\ pc[h] = "delete_remove"
    /\ data' = MapDelete(data, req[h].key)
    /\ ReturnWith(IF req[h].key \in DOMAIN data
                  THEN Touched("flush_range_data_end", req[h].key) ELSE loc,
                  h, loc[h].value, TRUE, FALSE)
    /\ UNCHANGED <<DeletedKeys, smallestKeyLength, largestKeyLength, wal,
                   sstFiles, walOpen, rest>>

\* Delete, key found by Get: writeToWAL.
DeleteTombWAL(h) ==
    /\ pc[h] = "delete_tombwal"
    /\ wal' = WriteOnHandle(wal, walOpen, "delete", req[h].key, loc[h].value)
    /\ Goto(h, "delete_mark")
    /\ UNCHANGED <<data, DeletedKeys, smallestKeyLength, largestKeyLength,
                   sstFiles, walOpen, reply, req, loc, rest>>

\* Delete, key found by Get: kv.DeletedKeys[key] = true.
DeleteMark(h) ==
    /\ pc[h] = "delete_mark"
    /\ DeletedKeys' = MapPut(DeletedKeys, req[h].key, TRUE)
    /\ ReturnWith(AfterPut("flush_range_deleted_end", DeletedKeys, req[h].key),
                  h, loc[h].value, TRUE, FALSE)
    /\ UNCHANGED <<data, smallestKeyLength, largestKeyLength, wal, sstFiles,
                   walOpen, rest>>

\* The positions whose next step writes, or reads, one of the two maps.
\* Assigning the field kv.data or kv.DeletedKeys, and len(kv.data), are not
\* accesses the runtime checks.
DataWrites == {"set_store", "delete_remove"}
DataReads == {"get", "get_inner", "delete", "flush_range_data", "flush_value"}
DeletedWrites == {"set_undelete", "delete_mark"}
DeletedReads == {"set", "get_deleted", "flush_range_deleted", "flush_marker"}
\* A handler within a range over the map the field still holds.
Ranges(g, ranging) == pc[g] = ranging /\ loc[g].live

\* A handler about to write a map while another is about to read or write
\* the same map, or ranges over it: the two accesses are a data race, which
\* Go's runtime may detect ("fatal error: concurrent map writes") and end
\* the process on.
Fatal ==
    /\ \E h, g \in Handlers :
           /\ h # g
           /\ \/ /\ pc[h] \in DataWrites
                 /\ \/ pc[g] \in DataWrites \cup DataReads
                    \/ Ranges(g, "flush_range_data_end")
              \/ /\ pc[h] \in DeletedWrites
                 /\ \/ pc[g] \in DeletedWrites \cup DeletedReads
                    \/ Ranges(g, "flush_range_deleted_end")
    /\ pc' = [h \in Handlers |-> "dead"]
    /\ UNCHANGED <<engine, walOpen, reply, req, loc, rest>>

NextConc ==
    \/ \E h \in Handlers, r \in Requests : Start(h, r)
    \/ \E h \in Handlers : SetCheckDeleted(h)
    \/ \E h \in Handlers : SetUndelete(h)
    \/ \E h \in Handlers : SetTestSmallest(h)
    \/ \E h \in Handlers : SetAssignSmallest(h)
    \/ \E h \in Handlers : SetTestLargest(h)
    \/ \E h \in Handlers : SetAssignLargest(h)
    \/ \E h \in Handlers : SetWriteWAL(h)
    \/ \E h \in Handlers : SetStore(h)
    \/ \E h \in Handlers : SetCheckThreshold(h)
    \/ \E h \in Handlers : FlushName(h)
    \/ \E h \in Handlers, t \in WriteTimes(sstFiles) : FlushCreate(h, t)
    \/ \E h \in Handlers, t \in WriteTimes(sstFiles) : FlushMagic(h, t)
    \/ \E h \in Handlers : FlushRangeData(h)
    \/ \E h \in Handlers : \E also \in SUBSET loc[h].opt : FlushRangeDataEnd(h, also)
    \/ \E h \in Handlers : FlushRangeDeleted(h)
    \/ \E h \in Handlers : \E also \in SUBSET loc[h].opt : FlushRangeDeletedEnd(h, also)
    \/ \E h \in Handlers, t \in WriteTimes(sstFiles) : FlushCount(h, t)
    \/ \E h \in Handlers : FlushReadSmallest(h)
    \/ \E h \in Handlers, t \in WriteTimes(sstFiles) : FlushSmallest(h, t)
    \/ \E h \in Handlers : FlushReadLargest(h)
    \/ \E h \in Handlers, t \in WriteTimes(sstFiles) : FlushLargest(h, t)
    \/ \E h \in Handlers : FlushValue(h)
    \/ \E h \in Handlers : FlushMarker(h)
    \/ \E h \in Handlers, t \in WriteTimes(sstFiles) : FlushWritePart(h, t)
    \/ \E h \in Handlers, t \in WriteTimes(sstFiles) : FlushWriteKey(h, t)
    \/ \E h \in Handlers, t \in WriteTimes(sstFiles) : FlushWriteValue(h, t)
    \/ \E h \in Handlers : SetClear(h)
    \/ \E h \in Handlers : SetClearDeleted(h)
    \/ \E h \in Handlers : SetClearWAL(h)
    \/ \E h \in Handlers : ClearWALTruncate(h)
    \/ \E h \in Handlers : ClearWALReopen(h)
    \/ \E h \in Handlers : GetRead(h)
    \/ \E h \in Handlers : GetCheckDeleted(h)
    \/ \E h \in Handlers : SearchGlob(h)
    \/ \E h \in Handlers : SortStat(h)
    \/ \E h \in Handlers : SortCompare(h)
    \/ \E h \in Handlers : SearchFile(h)
    \/ \E h \in Handlers : DeleteRead(h)
    \/ \E h \in Handlers : DeleteWriteWAL(h)
    \/ \E h \in Handlers : DeleteRemove(h)
    \/ \E h \in Handlers : DeleteTombWAL(h)
    \/ \E h \in Handlers : DeleteMark(h)
    \/ Fatal

SpecConc == InitConc /\ [][NextConc]_vars

-----------------------------------------------------------------------------
(* Properties.                                                             *)

Tombstones(del) == {k \in Keys : IsDeleted(del, k)}
InMemtable(k) == k \in DOMAIN data \/ IsDeleted(DeletedKeys, k)
Holds(file, k) == \E i \in 1..file.entryCount : file.entries[i].key = k
HoldsMarked(file, k, marker) ==
    \E i \in 1..file.entryCount :
        file.entries[i].key = k /\ file.entries[i].operationMarker = marker
\* The files were written in different ticks of the file system's clock.
DistinctModTimes ==
    \A i, j \in 1..Len(sstFiles) : i < j => sstFiles[i].modTime < sstFiles[j].modTime

\* C1: a Set(k, v) that does not flush, immediately followed by Get(k),
\* returns (v, true), also when k was deleted before and is tombstoned.
C1_RoundTrip ==
    (reply.op = "set" /\ ~reply.flushed) => Get(reply.key) = Found(reply.value)

\* C2: when the newest file holds a tombstone for k, an older file holds a
\* value for k and the memtable holds nothing for k, Get(k) reports not found.
C2_TombstoneShadowing ==
    \A k \in Keys :
        LET n == Len(sstFiles) IN
        (/\ n >= 2
         /\ DistinctModTimes
         /\ ~InMemtable(k)
         /\ HoldsMarked(sstFiles[n], k, 1)
         /\ HoldsMarked(sstFiles[n - 1], k, 0))
        => ~Get(k).ok

\* C3: after Delete(k) has returned and until the next Set(k, _), Get(k)
\* reports not found.
C3_DeleteHides == \A k \in hidden : ~Get(k).ok

\* C4: a Delete(k) right after a Delete(k) returns not found and changes
\* neither the map, the tombstones, the log nor the files.
C4_DeleteIdempotent ==
    [][(reply.op = "delete" /\ reply'.op = "delete" /\ reply'.key = reply.key)
       => (~reply'.ok /\ UNCHANGED <<data, DeletedKeys, wal, sstFiles>>)]_vars

\* C5: a restart right after a Set(k, v) that returned OK yields
\* Get(k) = (v, true).
C5_DurablePut ==
    [][(reply.op = "set" /\ reply'.op = "recover")
       => GetIn(data', DeletedKeys', sstFiles', reply.key) = Found(reply.value)]_vars

\* C6: a restart changes no key's Get.
C6_RecoveryKeepsGet ==
    [][reply'.op = "recover"
       => \A k \in Keys : GetIn(data', DeletedKeys', sstFiles', k) = Get(k)]_vars

\* C7: a Set or Delete that changes the map or the tombstones without
\* flushing has appended its record to the log.
C7_WriteAhead ==
    [][(/\ reply'.op \in {"set", "delete"}
        /\ sstFiles' = sstFiles
        /\ (data' # data \/ Tombstones(DeletedKeys') # Tombstones(DeletedKeys)))
       => (/\ Len(wal') = Len(wal) + 1
           /\ wal'[Len(wal')].key = JSONEscape(reply'.key)
           /\ wal'[Len(wal')].operation = reply'.op)]_vars

\* C8: from an empty memtable without tombstones, the first nine Sets of
\* distinct keys write no file, and the tenth writes exactly one and leaves
\* the map, the tombstones and the log empty.
C8_FlushThreshold ==
    /\ (streak.n >= 0 /\ streak.n < Threshold) =>
           /\ Len(sstFiles) = streak.files
           /\ Cardinality(DOMAIN data) = streak.n
    /\ streak.n = Threshold =>
           /\ Len(sstFiles) = streak.files + 1
           /\ data = EmptyMap
           /\ DOMAIN DeletedKeys = {}
           /\ wal = <<>>
\* C8, witness: a tenth Set of a distinct key has flushed.
C8_TenthSetFlushed == streak.n = Threshold /\ Len(sstFiles) = streak.files + 1

\* The most recently created file that holds the key.
LastHolding(k) ==
    CHOOSE i \in 1..Len(sstFiles) :
        /\ Holds(sstFiles[i], k)
        /\ \A j \in (i + 1)..Len(sstFiles) : ~Holds(sstFiles[j], k)

\* C9: for a key the memtable holds nothing for, Get returns what the most
\* recently created file that holds the key says.
C9_NewestWins ==
    \A k \in Keys :
        (~InMemtable(k) /\ \E i \in 1..Len(sstFiles) : Holds(sstFiles[i], k))
        => Get(k) = SearchSSTFile(k, sstFiles[LastHolding(k)])

\* The handler has made the first access of its call and not yet the last.
InCall(h) == pc[h] \notin {"idle", "dead", "set", "get", "delete"}

\* C10: no two handlers are at the same time between the first and the
\* last access of their calls to the map, the tombstones and the log.
C10_Serialized == \A h, g \in Handlers : h # g => ~(InCall(h) /\ InCall(g))

\* C11: a Set or Delete whose write of the log line failed is not answered
\* as a success (OK, or the deleted value).
C11_FailedLogNotOK ==
    (reply.op \in {"set", "delete"} /\ io.wal = "failed") => ~reply.ok

\* C12: a Set whose WriteSSTable fails leaves the map, the tombstones and
\* the log as they were just before the flush attempt (the map with the new
\* entry, the log with the new line); and a Set that gets past the tombstone
\* test while the map holds ten or more entries attempts the flush again.
C12_FlushFailureKeepsState ==
    [][/\ (reply'.op = "set" /\ io'.table = "failed") =>
              /\ data' = MapPut(data, reply'.key, reply'.value)
              /\ DeletedKeys' = DeletedKeys
              /\ wal' = IF io'.wal = "ok"
                        THEN writeToWAL(wal, "set", reply'.key, reply'.value)
                        ELSE wal
       /\ (/\ reply'.op = "set"
           /\ ~IsDeleted(DeletedKeys, reply'.key)
           /\ Cardinality(DOMAIN data) >= Threshold) => io'.table \in {"ok", "failed"}
      ]_vars
\* C12, witness: a flush has failed, and the map and the log still hold the
\* ten entries.
C12_FlushFailed ==
    /\ reply.op = "set"
    /\ io.table = "failed"
    /\ Cardinality(DOMAIN data) >= Threshold
    /\ Len(wal) >= Threshold

\* The file holds all that WriteSSTable writes: the magic number and as many
\* entries as its header counts.
Complete(file) == file.magic = "SSTB" /\ Len(file.entries) = file.entryCount

\* C13: every file that SearchSSTFiles lists holds the complete set of
\* entries of the flush that created it.
C13_NoPartialTable == \A i \in 1..Len(sstFiles) : Complete(sstFiles[i])

\* The search of the file for the key ends on a magic number that is not
\* "SSTB" or on a failed read, before any entry for the key is met.
ReadFails(file, key) ==
    \/ file.magic # "SSTB"
    \/ /\ Len(file.entries) < file.entryCount
       /\ \A i \in 1..Len(file.entries) : file.entries[i].key # key
\* The files without the i-th.
Without(files, i) == SubSeq(files, 1, i - 1) \o SubSeq(files, i + 1, Len(files))

\* C14: a file whose magic number is not "SSTB", or whose header or entries
\* fail to be read during the lookup, adds no result and does not end the
\* search: the lookup returns what it would return without the file.
C14_CorruptTableSkipped ==
    \A k \in Keys : \A i \in 1..Len(sstFiles) :
        ReadFails(sstFiles[i], k)
        => SearchSSTFiles(k, sstFiles) = SearchSSTFiles(k, Without(sstFiles, i))
\* C14, witness: a Get has passed over an unreadable file, searched first as
\* the most recently modified, and found the key in an older file.
C14_FoundPastCorruptTable ==
    /\ reply.op = "get"
    /\ reply.ok
    /\ ~InMemtable(reply.key)
    /\ \E i, j \in 1..Len(sstFiles) :
           /\ ReadFails(sstFiles[i], reply.key)
           /\ sstFiles[i].modTime > sstFiles[j].modTime
           /\ Holds(sstFiles[j], reply.key)

\* C15: a Set that flushes changes no key's Get: for every other key Get
\* returns after the flush what it returned before the Set, and for the
\* key Set it returns the value Set. Stated for files written in different
\* ticks of the file system's clock, which are searched newest first.
C15_FlushTransparent ==
    [][(reply'.op = "set" /\ reply'.flushed /\ DistinctModTimes') =>
           \A k \in Keys :
               GetIn(data', DeletedKeys', sstFiles', k) =
                   IF k = reply'.key THEN Found(reply'.value) ELSE Get(k)]_vars

\* The keys of the file's entries, in file order.
EntryKeys(file) == [i \in 1..Len(file.entries) |-> file.entries[i].key]

\* C16: every file a flush has written holds its entries in strictly
\* ascending key order, no key twice, and its header's entry count is the
\* number of distinct keys it holds.
C16_SortedDistinctEntries ==
    \A f \in 1..Len(sstFiles) :
        LET keys == EntryKeys(sstFiles[f]) IN
        /\ \A i \in 1..(Len(keys) - 1) : StrLess(keys[i], keys[i + 1])
        /\ sstFiles[f].entryCount = Cardinality({keys[i] : i \in 1..Len(keys)})

\* C17: a Set on a key whose tombstone flag is set clears the flag and does
\* nothing else: the map, the log, the key length trackers and the files
\* stay as they are.
C17_SetOnTombstone ==
    [][(reply'.op = "set" /\ IsDeleted(DeletedKeys, reply'.key)) =>
           /\ ~IsDeleted(DeletedKeys', reply'.key)
           /\ Tombstones(DeletedKeys') = Tombstones(DeletedKeys) \ {reply'.key}
           /\ UNCHANGED <<data, wal, smallestKeyLength, largestKeyLength, sstFiles>>
      ]_vars
\* C17, witness: a Set has cleared the flag of its key, which the map does
\* not hold.
C17_FlagCleared ==
    /\ reply.op = "set"
    /\ reply.key \in DOMAIN DeletedKeys
    /\ ~DeletedKeys[reply.key]
    /\ reply.key \notin DOMAIN data

\* C18: no key is at the same time in the map and flagged as deleted.
C18_LiveOrTombstoned == \A k \in Keys : ~(k \in DOMAIN data /\ IsDeleted(DeletedKeys, k))
\* C18, witness: a Delete has flagged a key while the map holds other keys.
C18_TombstoneBesideLive ==
    /\ reply.op = "delete"
    /\ IsDeleted(DeletedKeys, reply.key)
    /\ data # EmptyMap

\* C19: a restart applies the log's entries to the map and neither tests
\* the threshold nor writes a file or clears the log, however many entries
\* the map then holds.
C19_RecoveryNeverFlushes ==
    [][reply'.op = "recover" =>
           /\ sstFiles' = sstFiles
           /\ wal' = wal
           /\ DOMAIN data' = DOMAIN Replay(wal, EmptyMap)]_vars
\* C19, witness: the store serves after a restart with ten or more entries
\* in the map, which no flush has written.
C19_RecoveredAtThreshold ==
    /\ reply.op = "recover"
    /\ Cardinality(DOMAIN data) >= Threshold
    /\ Len(wal) >= Threshold

\* The log ends in a line cut short, and all lines before it are whole.
TornTail(log) ==
    /\ log # <<>>
    /\ Malformed(log[Len(log)])
    /\ \A i \in 1..(Len(log) - 1) : ~Malformed(log[i])
\* The key's value after the lines are applied in order: that of the last
\* line for the key, if that is a set.
LastLineOf(log, k) ==
    LET at == {i \in 1..Len(log) : JSONUnescape(log[i].key) = k} IN
    IF at = {} THEN 0 ELSE CHOOSE i \in at : \A j \in at : j <= i

\* C20: at a restart with a log that ends in a line cut short, the whole
\* lines before it are applied to the map in file order, and the store
\* goes on to serve.
C20_TornTailIsEnd ==
    [][(Killed /\ TornTail(wal)) =>
           /\ reply'.op = "recover"
           /\ reply'.ok
           /\ \A k \in Keys :
                  LET i == LastLineOf(SubSeq(wal, 1, Len(wal) - 1), k) IN
                  IF i > 0 /\ wal[i].operation = "set"
                  THEN k \in DOMAIN data' /\ data'[k] = JSONUnescape(wal[i].value)
                  ELSE k \notin DOMAIN data']_vars
\* C20, witness: the store serves after a restart with a log that ends in a
\* line cut short, with the entries of the lines before it in the map.
C20_RecoveredPastTornTail ==
    /\ reply.op = "recover"
    /\ TornTail(wal)
    /\ data # EmptyMap

\* C21: between two calls, with no write failing, the lines of the log
\* applied in order to an empty map (set inserts, delete removes) give
\* exactly the map: after a Set, a Delete, a flush (both empty) and a
\* restart.
C21_LogMatchesMemtable == data = Replay(wal, EmptyMap)
\* C21, witness: the store serves after a restart from a log that holds a
\* delete line, with entries in the map.
C21_RecoveredWithDeleteLine ==
    /\ reply.op = "recover"
    /\ data # EmptyMap
    /\ \E i \in 1..Len(wal) : wal[i].operation = "delete"

====
